---------------------------- MODULE Spec2Model ----------------------------
(***************************************************************************)
(* Model of src/pairs_trading_strategy.py: the pairs-trading signal        *)
(* pipeline (hedge ratio -> spread -> half-life -> z-score -> adaptive     *)
(* thresholds -> signals -> plot) and the control flow of main().          *)
(*                                                                         *)
(* Numbers.  The program computes in IEEE doubles.  The model computes in  *)
(* exact rationals extended with NaN, +inf and -inf, and follows the IEEE  *)
(* rules for them (x/0, 0/0, comparisons with NaN are false).  Rounding    *)
(* and the sign of zero are not modelled.                                  *)
(*                                                                         *)
(* Square roots.  A rolling standard deviation is irrational in general.   *)
(* Every quantity that carries one (rolling std, z-score, thresholds) is   *)
(* held as its SIGNED SQUARE  ssq(v) = sgn(v) * v^2 .  ssq is a strictly   *)
(* increasing bijection on the reals, so  v < u  iff  ssq(v) < ssq(u),     *)
(* ssq(-v) = -ssq(v),  ssq(2v) = 4 ssq(v),  ssq(a/v) = ssq(a)/ssq(v) for   *)
(* v > 0, and v is NaN/inf/0 exactly when ssq(v) is.                       *)
(***************************************************************************)
EXTENDS Integers, Sequences, FiniteSets, TLC

VARIABLES pc, y_data, x_data, combined, hedge_ratio, spread, half_life,
          window, zscore, upper_threshold, lower_threshold,
          buy_signals, sell_signals, calls, out, plotted, beta, raised

vars == <<pc, y_data, x_data, combined, hedge_ratio, spread, half_life,
          window, zscore, upper_threshold, lower_threshold,
          buy_signals, sell_signals, calls, out, plotted, beta, raised>>

(***************************************************************************)
(* Extended rational arithmetic (the doubles of the program).              *)
(***************************************************************************)
Abs(a) == IF a < 0 THEN -a ELSE a

Sign(a) == IF a < 0 THEN -1 ELSE IF a = 0 THEN 0 ELSE 1

RECURSIVE Gcd(_, _)
Gcd(a, b) == IF b = 0 THEN a ELSE Gcd(b, a % b)

NaN == [k |-> "nan", n |-> 0, d |-> 1]

PInf == [k |-> "inf", n |-> 1, d |-> 1]

NInf == [k |-> "inf", n |-> -1, d |-> 1]

\* the rational n/d (d # 0) in lowest terms with a positive denominator
Rat(n, d) ==
    LET g == Gcd(Abs(n), Abs(d))
        s == IF d < 0 THEN -1 ELSE 1
    IN  [k |-> "num", n |-> (s * n) \div g, d |-> (s * d) \div g]

Int2R(i) == [k |-> "num", n |-> i, d |-> 1]

IsNaN(a) == a.k = "nan"

IsNum(a) == a.k = "num"

IsInf(a) == a.k = "inf"

Neg(a) == IF IsNaN(a) THEN NaN ELSE [a EXCEPT !.n = -a.n]

Add(a, b) ==
    IF IsNaN(a) \/ IsNaN(b) THEN NaN
    ELSE IF IsInf(a) THEN (IF IsInf(b) /\ b.n # a.n THEN NaN ELSE a)
    ELSE IF IsInf(b) THEN b
    ELSE Rat(a.n * b.d + b.n * a.d, a.d * b.d)

Sub(a, b) == Add(a, Neg(b))

Mul(a, b) ==
    IF IsNaN(a) \/ IsNaN(b) THEN NaN
    ELSE IF IsInf(a) \/ IsInf(b)
         THEN (IF a.n = 0 \/ b.n = 0 THEN NaN
               ELSE IF Sign(a.n) * Sign(b.n) > 0 THEN PInf ELSE NInf)
    ELSE Rat(a.n * b.n, a.d * b.d)

\* IEEE division: x/0 is +-inf, 0/0 is NaN, nothing raises
Div(a, b) ==
    IF IsNaN(a) \/ IsNaN(b) THEN NaN
    ELSE IF IsInf(a) THEN (IF IsInf(b) THEN NaN
                           ELSE IF Sign(a.n) * (IF b.n < 0 THEN -1 ELSE 1) > 0
                                THEN PInf ELSE NInf)
    ELSE IF IsInf(b) THEN Int2R(0)
    ELSE IF b.n = 0 THEN (IF a.n = 0 THEN NaN
                          ELSE IF a.n > 0 THEN PInf ELSE NInf)
    ELSE Rat(a.n * b.d, a.d * b.n)

\* a < b; false when either is NaN
Less(a, b) ==
    IF IsNaN(a) \/ IsNaN(b) THEN FALSE
    ELSE IF IsInf(a) THEN a.n < 0 /\ ~(IsInf(b) /\ b.n < 0)
    ELSE IF IsInf(b) THEN b.n > 0
    ELSE a.n * b.d < b.n * a.d

Greater(a, b) == Less(b, a)

\* signed square of a plain value
SSq(a) == IF IsNum(a) THEN Rat(Sign(a.n) * a.n * a.n, a.d * a.d) ELSE a


(***************************************************************************)
(* pandas / numpy helpers.  A Series is a sequence of rows [date, v] in    *)
(* index order; v is an extended rational.                                  *)
(***************************************************************************)
Vals(s) == [i \in DOMAIN s |-> s[i].v]

\* vs[lo] + ... + vs[hi], summed by halves
RECURSIVE SumRange(_, _, _)
SumRange(vs, lo, hi) ==
    IF lo > hi THEN Int2R(0)
    ELSE IF lo = hi THEN vs[lo]
    ELSE LET mid == (lo + hi) \div 2
         IN  Add(SumRange(vs, lo, mid), SumRange(vs, mid + 1, hi))

Sum(vs) == SumRange(vs, 1, Len(vs))

\* np.mean / Series.mean of a NaN-free vector: 0/0 = NaN on an empty one
Mean(vs) == Div(Sum(vs), Int2R(Len(vs)))

Dot(as, bs) == Sum([i \in DOMAIN as |-> Mul(as[i], bs[i])])

Dev(vs) == LET m == Mean(vs) IN [i \in DOMAIN vs |-> Sub(vs[i], m)]

\* entry [r, c] of np.cov(y, x): dot(X - avg, (X - avg).T) * (1 / fact),
\* fact = n - 1, replaced by 0.0 when n - 1 <= 0
Cov(as, bs) ==
    LET fact == IF Len(as) - 1 <= 0 THEN 0 ELSE Len(as) - 1
    IN  Mul(Dot(Dev(as), Dev(bs)), Div(Int2R(1), Int2R(fact)))

\* Series.dropna()
DropNa(s) == SelectSeq(s, LAMBDA r : ~IsNaN(r.v))

\* Series.shift(1): same index, values moved down one row, NaN first
Shift1(s) ==
    [i \in DOMAIN s |-> [date |-> s[i].date,
                         v |-> IF i = 1 THEN NaN ELSE s[i - 1].v]]

\* Series.diff(): s[i] - s[i-1], NaN first
Diff1(s) ==
    [i \in DOMAIN s |-> [date |-> s[i].date,
                         v |-> IF i = 1 THEN NaN ELSE Sub(s[i].v, s[i - 1].v)]]

\* the trailing window of w observations ending at row i (i >= w)
WindowAt(vs, w, i) == SubSeq(vs, i - w + 1, i)

HasNaN(vs) == \E j \in DOMAIN vs : IsNaN(vs[j])

\* Series.rolling(w).mean(): min_periods = w valid observations
RollingMean(vs, w) ==
    [i \in DOMAIN vs |->
        IF i < w \/ HasNaN(WindowAt(vs, w, i)) THEN NaN
        ELSE Mean(WindowAt(vs, w, i))]

\* Series.rolling(w).std(), ddof = 1, as its square (the rolling variance):
\* NaN unless the window holds w valid observations and w > ddof
RollingStd(vs, w) ==
    [i \in DOMAIN vs |->
        IF i < w \/ HasNaN(WindowAt(vs, w, i)) \/ w <= 1 THEN NaN
        ELSE LET dv == Dev(WindowAt(vs, w, i))
             IN  Div(Dot(dv, dv), Int2R(w - 1))]

(***************************************************************************)
(* The functions of the program.                                           *)
(***************************************************************************)
\* ln 2 = 0.693147..., as the convergent 2731/3940 of its continued fraction
\* (error < 3e-8)
Ln2 == Rat(2731, 3940)

\* fetch_delayed_data: what it returns for the bars the feed delivered.
\* pd.DataFrame() and a Series are both the sequence of their rows.
fetch_delayed_data(bars) ==
    IF bars = <<>> THEN <<>>
    ELSE [i \in DOMAIN bars |-> [date |-> bars[i].date, v |-> Int2R(bars[i].close)]]

\* DataFrame.empty / Series.empty
Empty(data) == Len(data) = 0

\* the slope np.polyfit(x, y, 1)[0], as the set of its possible outcomes.
\*  - no points, or vectors of different length: TypeError;
\*  - x not constant: the least-squares slope;
\*  - x constant c # 0 (one point included): the system has rank 1, polyfit
\*    warns (RankWarning) and returns lstsq's minimum-norm solution of the
\*    column-scaled system, whose slope is mean(y) / (2 c);
\*  - x constant 0: the column scale is 0, the scaled matrix is NaN and
\*    lstsq either raises LinAlgError or returns NaN, depending on LAPACK.
polyfit_slope(xs, ys) ==
    IF Len(xs) = 0 \/ Len(xs) # Len(ys)
    THEN {[raises |-> "TypeError", v |-> NaN]}
    ELSE LET dx  == Dev(xs)
             sxx == Dot(dx, dx)
         IN  IF sxx.n # 0
             THEN {[raises |-> "", v |-> Div(Dot(dx, Dev(ys)), sxx)]}
             ELSE IF xs[1].n # 0
             THEN {[raises |-> "", v |-> Div(Mean(ys), Mul(Int2R(2), xs[1]))]}
             ELSE {[raises |-> "LinAlgError", v |-> NaN],
                   [raises |-> "", v |-> NaN]}

\* Python's max(1, x): x when x > 1, else 1 (also when x is NaN)
max1(x) == IF Greater(x, Int2R(1)) THEN x ELSE Int2R(1)

\* the slope beta fitted by calculate_half_life (lines 31-33)
half_life_beta(sp) ==
    LET spread_lag   == Vals(DropNa(Shift1(sp)))
        delta_spread == Vals(DropNa(Diff1(sp)))
    IN  polyfit_slope(spread_lag, delta_spread)

\* calculate_half_life without the floor of line 35
calculate_half_life_nomax(b) ==
    IF b.raises # "" THEN b
    ELSE [raises |-> "", v |-> Div(Neg(Ln2), b.v)]

\* calculate_half_life on one outcome b of the fit: an exception of polyfit
\* propagates, else max(1, -ln(2) / beta)
calculate_half_life(b) ==
    IF b.raises # "" THEN b
    ELSE [raises |-> "", v |-> max1(Div(Neg(Ln2), b.v))]

\* adaptive_thresholds with the two bands exchanged
adaptive_thresholds_swapped(sp, w) ==
    LET rolling_std == RollingStd(Vals(sp), w)
    IN  <<[i \in DOMAIN sp |-> [date |-> sp[i].date,
                                v |-> Mul(Neg(rolling_std[i]), Int2R(4))]],
          [i \in DOMAIN sp |-> [date |-> sp[i].date,
                                v |-> Mul(rolling_std[i], Int2R(4))]]>>

\* adaptive_thresholds with the lower band at one standard deviation
adaptive_thresholds_single(sp, w) ==
    LET rolling_std == RollingStd(Vals(sp), w)
    IN  <<[i \in DOMAIN sp |-> [date |-> sp[i].date,
                                v |-> Mul(rolling_std[i], Int2R(4))]],
          [i \in DOMAIN sp |-> [date |-> sp[i].date,
                                v |-> Neg(rolling_std[i])]]>>

\* adaptive_thresholds rolling over 30 bars (the default of calculate_zscore)
\* whatever window it is given
adaptive_thresholds_w30(sp, w) ==
    LET rolling_std == RollingStd(Vals(sp), 30)
    IN  <<[i \in DOMAIN sp |-> [date |-> sp[i].date,
                                v |-> Mul(rolling_std[i], Int2R(4))]],
          [i \in DOMAIN sp |-> [date |-> sp[i].date,
                                v |-> Mul(Neg(rolling_std[i]), Int2R(4))]]>>

\* adaptive_thresholds: <<upper, lower>> = <<2 std, -2 std>>, as signed squares
adaptive_thresholds(sp, w) ==
    LET rolling_std == RollingStd(Vals(sp), w)
    IN  <<[i \in DOMAIN sp |-> [date |-> sp[i].date,
                                v |-> Mul(rolling_std[i], Int2R(4))]],
          [i \in DOMAIN sp |-> [date |-> sp[i].date,
                                v |-> Mul(Neg(rolling_std[i]), Int2R(4))]]>>

\* calculate_hedge_ratio: cov_matrix[0, 1] / cov_matrix[1, 1]
calculate_hedge_ratio(ys, xs) == Div(Cov(ys, xs), Cov(xs, xs))

\* calculate_spread: y - hedge_ratio * x, row by row
calculate_spread(comb, h) ==
    [i \in DOMAIN comb |-> [date |-> comb[i].date,
                            v |-> Sub(comb[i].y, Mul(h, comb[i].x))]]

\* calculate_zscore followed by fillna(0)
calculate_zscore_fill0(sp, w) ==
    LET rolling_mean == RollingMean(Vals(sp), w)
        rolling_std  == RollingStd(Vals(sp), w)
    IN  [i \in DOMAIN sp |->
            [date |-> sp[i].date,
             v |-> LET q == Div(SSq(Sub(sp[i].v, rolling_mean[i])), rolling_std[i])
                   IN  IF IsNaN(q) THEN Int2R(0) ELSE q]]

\* calculate_zscore: (spread - rolling_mean) / rolling_std, as signed squares
calculate_zscore(sp, w) ==
    LET rolling_mean == RollingMean(Vals(sp), w)
        rolling_std  == RollingStd(Vals(sp), w)
    IN  [i \in DOMAIN sp |->
            [date |-> sp[i].date,
             v |-> Div(SSq(Sub(sp[i].v, rolling_mean[i])), rolling_std[i])]]

\* int(half_life): truncation of a value >= 1
int(h) == h.n \div h.d

\* zscore[zscore < lower_threshold]: the rows whose mask entry is True
buy_select(z, lower) ==
    LET mask == [i \in DOMAIN z |-> Less(z[i].v, lower[i].v)]
        keep == {i \in DOMAIN z : mask[i]}
    IN  [r \in keep |-> z[r]]

\* the sell selection with a one-bar hold-off: a bar right after a qualifying
\* bar emits nothing
sell_select_dedup(z, upper) ==
    LET mask == [i \in DOMAIN z |-> Greater(z[i].v, upper[i].v)]
        keep == {i \in DOMAIN z : mask[i] /\ ~(i > 1 /\ mask[i - 1])}
    IN  [r \in keep |-> z[r]]

\* zscore[zscore > upper_threshold]
sell_select(z, upper) ==
    LET mask == [i \in DOMAIN z |-> Greater(z[i].v, upper[i].v)]
        keep == {i \in DOMAIN z : mask[i]}
    IN  [r \in keep |-> z[r]]

(***************************************************************************)
(* Bounds and the data the feed can deliver.                               *)
(***************************************************************************)
\* window=60 of adaptive_thresholds, as main passes it
THRESHOLD_WINDOW == 60

\* longest short price series
MaxBars == 3

\* a long series has THRESHOLD_WINDOW + 2 * e bars, e in 0 .. MaxExtra
MaxExtra == 1

YPrices == {1, 2, 3}

XPrices == {1, 2}

\* bars with the closes cs on the dates off + 1, off + 2, ...
Bars(cs, off) == [i \in DOMAIN cs |-> [date |-> off + i, close |-> cs[i]]]

ShortCloses(P) == UNION {[1 .. n -> P] : n \in 0 .. MaxBars}

LongLens == {THRESHOLD_WINDOW + 2 * e : e \in 0 .. MaxExtra}

\* a long Y series: flat at 2, then two bars at a and two bars at b
LongY(n, a, b) ==
    [i \in 1 .. n |-> IF i <= n - 4 THEN 2 ELSE IF i <= n - 2 THEN a ELSE b]

\* a long X series: 1, 2, 1, 2, ...
LongX(n) == [i \in 1 .. n |-> IF i % 2 = 1 THEN 1 ELSE 2]

\* what reqHistoricalData can return for YUM
FeedY ==
    {Bars(cs, 0) : cs \in ShortCloses(YPrices)}
        \cup {Bars(LongY(n, a, b), 0) : n \in LongLens, a \in YPrices, b \in YPrices}

\* what reqHistoricalData can return for MDT; a short series may start a day late
FeedX ==
    {Bars(cs, off) : cs \in ShortCloses(XPrices), off \in {0, 1}}
        \cup {Bars(LongX(n), 0) : n \in LongLens}

(***************************************************************************)
(* main(): one action per statement group.                                 *)
(***************************************************************************)
STATS == {"calculate_hedge_ratio", "calculate_spread", "calculate_half_life",
          "calculate_zscore", "adaptive_thresholds"}

MsgConnect == <<"Failed to connect to IB">>

MsgNoData(sym) == <<"No data returned for", sym>>

MsgFetch == <<"Failed to fetch data. Exiting.">>

Start(p) ==
    /\ pc = p
    /\ y_data = <<>> /\ x_data = <<>> /\ combined = <<>>
    /\ hedge_ratio = NaN /\ half_life = NaN /\ beta = NaN
    /\ zscore = <<>> /\ upper_threshold = <<>> /\ lower_threshold = <<>>
    /\ buy_signals = <<>> /\ sell_signals = <<>>
    /\ calls = {} /\ out = <<>> /\ plotted = FALSE /\ raised = ""

Init == Start("connect") /\ spread = <<>> /\ window = 0

\* lines 94-99: ib.connect either succeeds or raises, and main returns
Connect ==
    /\ pc = "connect"
    /\ \/ pc' = "fetch_y" /\ out' = out
       \/ pc' = "done" /\ out' = Append(out, MsgConnect)
    /\ UNCHANGED <<y_data, x_data, combined, hedge_ratio, spread, half_life,
                   window, zscore, upper_threshold, lower_threshold,
                   buy_signals, sell_signals, calls, plotted, beta, raised>>

\* line 108
FetchY ==
    /\ pc = "fetch_y"
    /\ \E bars \in FeedY :
          /\ y_data' = fetch_delayed_data(bars)
          /\ out' = IF bars = <<>> THEN Append(out, MsgNoData("YUM")) ELSE out
    /\ pc' = "fetch_x"
    /\ UNCHANGED <<x_data, combined, hedge_ratio, spread, half_life,
                   window, zscore, upper_threshold, lower_threshold,
                   buy_signals, sell_signals, calls, plotted, beta, raised>>

\* line 109
FetchX ==
    /\ pc = "fetch_x"
    /\ \E bars \in FeedX :
          /\ x_data' = fetch_delayed_data(bars)
          /\ out' = IF bars = <<>> THEN Append(out, MsgNoData("MDT")) ELSE out
    /\ pc' = "check"
    /\ UNCHANGED <<y_data, combined, hedge_ratio, spread, half_life,
                   window, zscore, upper_threshold, lower_threshold,
                   buy_signals, sell_signals, calls, plotted, beta, raised>>

\* the test of line 111 written with "and"
data_missing_and(y, x) == Empty(y) /\ Empty(x)

\* the test of line 111
data_missing(y, x) == Empty(y) \/ Empty(x)

\* lines 111-113
CheckData ==
    /\ pc = "check"
    /\ IF data_missing(y_data, x_data)
       THEN pc' = "done" /\ out' = Append(out, MsgFetch)
       ELSE pc' = "align" /\ out' = out
    /\ UNCHANGED <<y_data, x_data, combined, hedge_ratio, spread, half_life,
                   window, zscore, upper_threshold, lower_threshold,
                   buy_signals, sell_signals, calls, plotted, beta, raised>>

\* pd.concat([y, x], axis=1).dropna(): the rows of the dates both series
\* have, in index order (both indexes are increasing)
align(y, x) ==
    LET kept == SelectSeq(y, LAMBDA r : \E j \in DOMAIN x : x[j].date = r.date)
    IN  [i \in DOMAIN kept |->
            [date |-> kept[i].date, y |-> kept[i].v,
             x |-> (CHOOSE r \in {x[j] : j \in DOMAIN x} : r.date = kept[i].date).v]]

\* lines 116-117
Align ==
    /\ pc = "align"
    /\ combined' = align(y_data, x_data)
    /\ pc' = "hedge"
    /\ UNCHANGED <<y_data, x_data, hedge_ratio, spread, half_life,
                   window, zscore, upper_threshold, lower_threshold,
                   buy_signals, sell_signals, calls, out, plotted, beta, raised>>

AssetY(comb) == [i \in DOMAIN comb |-> comb[i].y]

AssetX(comb) == [i \in DOMAIN comb |-> comb[i].x]

\* line 122
HedgeRatio ==
    /\ pc = "hedge"
    /\ hedge_ratio' = calculate_hedge_ratio(AssetY(combined), AssetX(combined))
    /\ calls' = calls \cup {"calculate_hedge_ratio"}
    /\ pc' = "spread"
    /\ UNCHANGED <<y_data, x_data, combined, spread, half_life,
                   window, zscore, upper_threshold, lower_threshold,
                   buy_signals, sell_signals, out, plotted, beta, raised>>

\* line 123
Spread ==
    /\ pc = "spread"
    /\ spread' = calculate_spread(combined, hedge_ratio)
    /\ calls' = calls \cup {"calculate_spread"}
    /\ pc' = "half_life"
    /\ UNCHANGED <<y_data, x_data, combined, hedge_ratio, half_life,
                   window, zscore, upper_threshold, lower_threshold,
                   buy_signals, sell_signals, out, plotted, beta, raised>>

\* line 126: an exception of np.polyfit is caught nowhere and ends the run
HalfLife ==
    /\ pc = "half_life"
    /\ calls' = calls \cup {"calculate_half_life"}
    /\ \E b \in half_life_beta(spread) :
          LET r == calculate_half_life(b)
          IN  /\ beta' = b.v
              /\ raised' = r.raises
              /\ half_life' = r.v
              /\ pc' = IF r.raises # "" THEN "fault" ELSE "zscore"
    /\ UNCHANGED <<y_data, x_data, combined, hedge_ratio, spread,
                   window, zscore, upper_threshold, lower_threshold,
                   buy_signals, sell_signals, out, plotted>>

\* line 127
ZScore ==
    /\ pc = "zscore"
    /\ window' = int(half_life)
    /\ zscore' = calculate_zscore(spread, window')
    /\ calls' = calls \cup {"calculate_zscore"}
    /\ pc' = "thresholds"
    /\ UNCHANGED <<y_data, x_data, combined, hedge_ratio, spread, half_life,
                   upper_threshold, lower_threshold,
                   buy_signals, sell_signals, out, plotted, beta, raised>>

\* line 130
Thresholds ==
    /\ pc = "thresholds"
    /\ LET t == adaptive_thresholds(spread, THRESHOLD_WINDOW)
       IN  upper_threshold' = t[1] /\ lower_threshold' = t[2]
    /\ calls' = calls \cup {"adaptive_thresholds"}
    /\ pc' = "signals"
    /\ UNCHANGED <<y_data, x_data, combined, hedge_ratio, spread, half_life,
                   window, zscore, buy_signals, sell_signals, out, plotted,
                   beta, raised>>

\* lines 131-132
Signals ==
    /\ pc = "signals"
    /\ buy_signals' = buy_select(zscore, lower_threshold)
    /\ sell_signals' = sell_select(zscore, upper_threshold)
    /\ pc' = "plot"
    /\ UNCHANGED <<y_data, x_data, combined, hedge_ratio, spread, half_life,
                   window, zscore, upper_threshold, lower_threshold,
                   calls, out, plotted, beta, raised>>

\* line 135
Plot ==
    /\ pc = "plot"
    /\ plotted' = TRUE
    /\ pc' = "done"
    /\ UNCHANGED <<y_data, x_data, combined, hedge_ratio, spread, half_life,
                   window, zscore, upper_threshold, lower_threshold,
                   buy_signals, sell_signals, calls, out, beta, raised>>

Next ==
    \/ Connect \/ FetchY \/ FetchX \/ CheckData \/ Align \/ HedgeRatio
    \/ Spread \/ HalfLife \/ ZScore \/ Thresholds \/ Signals \/ Plot

Spec == Init /\ [][Next]_vars

(***************************************************************************)
(* The statistical functions on their own: each is applied to a spread     *)
(* and a z-score window drawn from bounded sets.                           *)
(***************************************************************************)
\* longest short spread
MaxLen == 3

\* a long spread is flat but for its last TailLen entries
TailLen == 3

\* largest z-score window tried
MaxWindow == 3

SpreadValues == {-1, 0, 1}

SeriesOf(cs) == [i \in DOMAIN cs |-> [date |-> i, v |-> Int2R(cs[i])]]

LongSpread(n, base, tail) ==
    [i \in 1 .. n |-> IF i <= n - TailLen THEN base ELSE tail[i - (n - TailLen)]]

SpreadInputs ==
    {SeriesOf(cs) : cs \in UNION {[1 .. n -> SpreadValues] : n \in 0 .. MaxLen}}
        \cup {SeriesOf(LongSpread(THRESHOLD_WINDOW + e, base, tail)) :
                 e \in 0 .. MaxExtra, base \in SpreadValues,
                 tail \in [1 .. TailLen -> SpreadValues]}

FnInit ==
    /\ Start("t_half_life")
    /\ spread \in SpreadInputs
    /\ window \in 1 .. MaxWindow

\* calculate_half_life(spread); an exception is recorded and the next
\* function is applied all the same
TestHalfLife ==
    /\ pc = "t_half_life"
    /\ calls' = calls \cup {"calculate_half_life"}
    /\ \E b \in half_life_beta(spread) :
          LET r == calculate_half_life(b)
          IN  /\ beta' = b.v
              /\ raised' = r.raises
              /\ half_life' = r.v
    /\ pc' = "t_zscore"
    /\ UNCHANGED <<y_data, x_data, combined, hedge_ratio, spread,
                   window, zscore, upper_threshold, lower_threshold,
                   buy_signals, sell_signals, out, plotted>>

\* calculate_zscore(spread, window)
TestZScore ==
    /\ pc = "t_zscore"
    /\ zscore' = calculate_zscore(spread, window)
    /\ calls' = calls \cup {"calculate_zscore"}
    /\ pc' = "t_thresholds"
    /\ UNCHANGED <<y_data, x_data, combined, hedge_ratio, spread, half_life,
                   window, upper_threshold, lower_threshold,
                   buy_signals, sell_signals, out, plotted, beta, raised>>

\* adaptive_thresholds(spread), window = 60
TestThresholds ==
    /\ pc = "t_thresholds"
    /\ LET t == adaptive_thresholds(spread, THRESHOLD_WINDOW)
       IN  upper_threshold' = t[1] /\ lower_threshold' = t[2]
    /\ calls' = calls \cup {"adaptive_thresholds"}
    /\ pc' = "t_signals"
    /\ UNCHANGED <<y_data, x_data, combined, hedge_ratio, spread, half_life,
                   window, zscore, buy_signals, sell_signals, out, plotted,
                   beta, raised>>

\* the two selections of lines 131-132
TestSignals ==
    /\ pc = "t_signals"
    /\ buy_signals' = buy_select(zscore, lower_threshold)
    /\ sell_signals' = sell_select(zscore, upper_threshold)
    /\ pc' = "t_done"
    /\ UNCHANGED <<y_data, x_data, combined, hedge_ratio, spread, half_life,
                   window, zscore, upper_threshold, lower_threshold,
                   calls, out, plotted, beta, raised>>

FnNext == TestHalfLife \/ TestZScore \/ TestThresholds \/ TestSignals

FnSpec == FnInit /\ [][FnNext]_vars

(***************************************************************************)
(* The claims.                                                             *)
(***************************************************************************)
Range(q) == {q[i] : i \in DOMAIN q}

Zero == Int2R(0)

One == Int2R(1)

Max(a, b) == IF a >= b THEN a ELSE b

\* main is past the alignment of line 116
Aligned == pc \in {"hedge", "spread", "half_life", "zscore", "thresholds",
                   "signals", "plot", "fault"} \/ plotted

\* the feed returned nothing for a symbol
FeedEmpty == MsgNoData("YUM") \in Range(out) \/ MsgNoData("MDT") \in Range(out)

\* C1: once the feed has returned an empty result for either symbol, no
\* statistic is ever computed and nothing is plotted; the run ends cleanly
\* with the message of line 112.
C1_AbortOnEmptyFeed ==
    FeedEmpty =>
        /\ calls \cap STATS = {}
        /\ ~plotted
        /\ pc \in {"fetch_x", "check", "done"}
        /\ pc = "done" => MsgFetch \in Range(out)

C1_Witness ==
    /\ pc = "done"
    /\ ~Empty(y_data) /\ Empty(x_data)
    /\ MsgNoData("MDT") \in Range(out) /\ MsgFetch \in Range(out)

\* the aligned X series has at least two bars, all at the same price
ConstantX ==
    /\ Aligned
    /\ Len(combined) >= 2
    /\ \A i \in DOMAIN combined : combined[i].x = combined[1].x

\* C2: with a constant X series the pipeline aborts at the hedge ratio: no
\* spread, half-life, z-score, signal or plot is produced, and the run does
\* not end in an unhandled exception.
C2_ConstantXAborts ==
    ConstantX =>
        /\ calls \cap {"calculate_spread", "calculate_half_life",
                       "calculate_zscore", "adaptive_thresholds"} = {}
        /\ ~plotted
        /\ pc # "fault"

\* the aligned pair is empty, or too short to difference and regress
TooShort == Aligned /\ Len(combined) < 3

\* C3: a failure after the fetch ends the run with a message and a clean
\* exit: no run ends in an unhandled exception, and a run whose aligned
\* series is empty or too short never reaches plot_strategy.
C3_CleanFailure ==
    /\ pc # "fault"
    /\ TooShort => ~plotted
    /\ TooShort /\ pc = "done" => out # <<>>

\* C4: no row is both a buy signal and a sell signal.
C4_SignalsDisjoint == DOMAIN buy_signals \cap DOMAIN sell_signals = {}

C4_Witness ==
    /\ pc = "t_done"
    /\ DOMAIN buy_signals # {}
    /\ DOMAIN sell_signals # {}

\* calculate_half_life has returned
HalfLifeReturned == pc \in {"t_zscore", "t_thresholds", "t_signals", "t_done"}
                        /\ raised = ""

VarDirect(vs) ==
    LET w == Len(vs)
    IN  Div(Sub(Mul(Int2R(w), Dot(vs, vs)), Mul(Sum(vs), Sum(vs))),
            Int2R(w * (w - 1)))

ZScoreReturned == pc \in {"t_thresholds", "t_signals", "t_done"}

\* C6: calculate_zscore leaves exactly the first window - 1 entries
\* undefined: every later entry whose rolling standard deviation is not
\* zero is the number (spread - rolling mean) / rolling std.
C6_ZScoreDefined ==
    ZScoreReturned =>
        \A i \in DOMAIN spread :
            /\ i < window => IsNaN(zscore[i].v)
            /\ i >= window /\ RollingStd(Vals(spread), window)[i] # Zero =>
                  LET win == WindowAt(Vals(spread), window, i)
                  IN  /\ IsNum(zscore[i].v)
                      /\ zscore[i].v =
                            Div(SSq(Sub(spread[i].v, Mean(win))), VarDirect(win))

AllEqual(sp) == Len(sp) >= 1 /\ \A i \in DOMAIN sp : sp[i].v = sp[1].v

\* C7: on an all-equal spread the z-score of every full-window row is
\* undefined (NaN, not 0 and not infinite), and there is no signal.
C7_AllEqualNoSignals ==
    AllEqual(spread) =>
        /\ ZScoreReturned =>
              \A i \in DOMAIN spread : i >= window => IsNaN(zscore[i].v)
        /\ pc = "t_done" => DOMAIN buy_signals = {} /\ DOMAIN sell_signals = {}

C7_Witness ==
    /\ pc = "t_done"
    /\ AllEqual(spread)
    /\ Len(spread) > THRESHOLD_WINDOW
    /\ window >= 2
    /\ spread[1].v # Zero

ThresholdsReturned == pc \in {"t_signals", "t_done"}

\* C8: the bands are symmetric about zero: from row 60 on,
\* upper = -lower = 2 * (rolling std over 60), lower <= 0 <= upper; before
\* row 60 both are undefined.
C8_SymmetricBands ==
    ThresholdsReturned =>
        \A i \in DOMAIN spread :
            IF i >= THRESHOLD_WINDOW
            THEN LET var == VarDirect(WindowAt(Vals(spread), THRESHOLD_WINDOW, i))
                 IN  /\ upper_threshold[i].v = Mul(Int2R(4), var)
                     /\ upper_threshold[i].v = Neg(lower_threshold[i].v)
                     /\ lower_threshold[i].v.n <= 0
                     /\ upper_threshold[i].v.n >= 0
            ELSE IsNaN(upper_threshold[i].v) /\ IsNaN(lower_threshold[i].v)

C8_Witness ==
    /\ ThresholdsReturned
    /\ \E i \in DOMAIN spread :
          IsNum(upper_threshold[i].v) /\ upper_threshold[i].v.n > 0
    /\ \E i \in DOMAIN spread : IsNaN(upper_threshold[i].v)

\* a and b are numbers and a < b
DefinedLess(a, b) == IsNum(a) /\ IsNum(b) /\ a.n * b.d < b.n * a.d

\* C9: row i is a buy signal exactly when zscore[i] and lower[i] are defined
\* and zscore[i] < lower[i], a sell signal exactly when zscore[i] and
\* upper[i] are defined and zscore[i] > upper[i], whatever the rows before
\* it emitted; a signal carries the z-score of its row.
C9_StatelessSignals ==
    pc = "t_done" =>
        \A i \in DOMAIN zscore :
            /\ i \in DOMAIN buy_signals
                  <=> DefinedLess(zscore[i].v, lower_threshold[i].v)
            /\ i \in DOMAIN sell_signals
                  <=> DefinedLess(upper_threshold[i].v, zscore[i].v)
            /\ i \in DOMAIN buy_signals => buy_signals[i] = zscore[i]
            /\ i \in DOMAIN sell_signals => sell_signals[i] = zscore[i]

C9_Witness ==
    /\ pc = "t_done"
    /\ \E i \in DOMAIN zscore :
          i \in DOMAIN sell_signals /\ i + 1 \in DOMAIN sell_signals

\* C10: in main, every signal lies at or after row max(window, 60) (position
\* max(window, 60) - 1 counted from 0), and a run that plots fewer than 60
\* bars, or fewer bars than the window, plots no signal.
C10_NoWarmupSignal ==
    /\ \A r \in DOMAIN buy_signals \cup DOMAIN sell_signals :
          r >= Max(window, THRESHOLD_WINDOW)
    /\ plotted /\ (Len(combined) < THRESHOLD_WINDOW \/ Len(combined) < window)
          => DOMAIN buy_signals = {} /\ DOMAIN sell_signals = {}

C10_Witness ==
    /\ plotted
    /\ window >= 2
    /\ \E r \in DOMAIN sell_signals : r >= Max(window, THRESHOLD_WINDOW)

=============================================================================
